---- MODULE Spec2Model ----
(***************************************************************************)
(* DivertScan QuickBooks export (divertscan_quickbooks_export.js).         *)
(*                                                                         *)
(* Two specifications over one set of variables:                           *)
(*   Spec        the asynchronous side: resolveLoads (IndexedDB first,     *)
(*               API fallback under a 15 s abort timer), generateIIF,      *)
(*               generateCSV and generateAll (Promise.all of the two).     *)
(*   SpecExport  the synchronous side: groupByProject, normalizeLoad,      *)
(*               toQBDate, resolveWeightTons, buildIIF, buildCSV applied   *)
(*               to input sequences drawn from a bounded set.              *)
(*                                                                         *)
(* JavaScript strings that the code inspects or builds are sequences of    *)
(* one-character strings.  Decimal numbers are integers in units of 1e-4   *)
(* (tons, dollars); toFixed is rounding of such an integer.                *)
(***************************************************************************)
EXTENDS Integers, Sequences, FiniteSets, TLC

VARIABLES
    \* ---- environment
    dbState,        \* what indexedDB.open finds: "loads", "scans" or "none" (no store)
    dbRecords,      \* the records of the store, in store order
    onLine,         \* navigator.onLine
    today,          \* the calendar date of new Date()
    fpTieUp,        \* direction in which toFixed resolves a decimal half (binary floating point decides)
    \* ---- one export pipeline per format ("iif": generateIIF, "csv": generateCSV)
    call,           \* the public operation in progress: "none", "all", "iif", "csv"
    scope,          \* projectId argument of each pipeline (Undefined = null = all projects)
    pc,             \* position of each pipeline
    loads,          \* resolveLoads' local variable `loads`
    timerArmed,     \* the setTimeout of getLoadsFromAPI is pending
    aborted,        \* controller.abort() has run
    elapsedMs,      \* time since fetch was issued
    trace,          \* the source queries of the pipeline, as they start and settle
    sawOnline,      \* navigator.onLine as resolveLoads read it ("unread" if it did not)
    result,         \* value generateIIF / generateCSV resolved with
    downloaded,     \* content handed to triggerDownload
    allResult,      \* value generateAll resolved with
    \* ---- synchronous export
    input,          \* raw records handed to groupByProject
    iifOut,         \* outcome of buildIIF(groupByProject(input))
    csvOut          \* outcome of buildCSV(groupByProject(input))

envVars  == <<dbState, dbRecords, onLine, today, fpTieUp>>
pipeVars == <<call, scope, pc, loads, timerArmed, aborted, elapsedMs, trace, sawOnline,
              result, downloaded, allResult>>
expVars  == <<input, iifOut, csvOut>>
vars     == <<envVars, pipeVars, expVars>>

-----------------------------------------------------------------------------
(* Bounds of the model *)
MaxStore == 2       \* records in the local store / in a remote body
MaxInput == 3       \* records handed to the synchronous export
MaxTicks == 2       \* clock ticks the model follows after a fetch is issued

(* Program constants *)
RATE_PER_TON     == 125
TIMEOUT_MS       == 15000
INVOICE_START    == 1000
LBS_PER_TON      == 2000

TickMs == 15000     \* granularity of the model's clock

-----------------------------------------------------------------------------
(* JavaScript strings and numbers *)

Undefined == <<"undefined">>          \* an absent field (not a one-character string)
Falsy(v)  == v = Undefined \/ v = <<>>
\* a || b || c for string-valued operands
Or2(a, b)    == IF Falsy(a) THEN b ELSE a
Or3(a, b, c) == Or2(a, Or2(b, c))

DigitChars == <<"0", "1", "2", "3", "4", "5", "6", "7", "8", "9">>
DigitSet   == {DigitChars[i] : i \in 1..10}
DigitVal(c) == CHOOSE d \in 0..9 : DigitChars[d + 1] = c

RECURSIVE NumToStr(_)
NumToStr(n) == IF n < 10 THEN <<DigitChars[n + 1]>>
               ELSE NumToStr(n \div 10) \o <<DigitChars[(n % 10) + 1]>>

RECURSIVE StrToNum(_)
StrToNum(s) == IF s = <<>> THEN 0
               ELSE StrToNum(SubSeq(s, 1, Len(s) - 1)) * 10 + DigitVal(s[Len(s)])

IsDigitStr(s) == Len(s) > 0 /\ \A i \in 1..Len(s) : s[i] \in DigitSet

\* String.prototype.padStart(n, '0')
RECURSIVE padStart(_, _)
padStart(s, n) == IF Len(s) >= n THEN s ELSE padStart(<<"0">> \o s, n)

\* a JavaScript number that may be NaN
NaN       == [nan |-> TRUE, v |-> 0]
Num(n)    == [nan |-> FALSE, v |-> n]
JsAdd(a, n)  == IF a.nan THEN NaN ELSE Num(a.v + n)
JsString(a)  == IF a.nan THEN <<"N", "a", "N">> ELSE NumToStr(a.v)

RECURSIVE Pow10(_)
Pow10(k) == IF k = 0 THEN 1 ELSE 10 * Pow10(k - 1)

\* Number.prototype.toFixed: x is a non-negative value in units of 1e-4, the result the
\* integer number of 10^-digits units it is rounded to.  A value exactly halfway between
\* two results goes where its binary approximation lies (tieUp).
RoundFixed(x, digits, tieUp) ==
    LET unit == Pow10(4 - digits)
        q    == x \div unit
        r    == x % unit
    IN  IF 2 * r > unit \/ (2 * r = unit /\ tieUp) THEN q + 1 ELSE q

\* the decimal text of n units of 10^-digits, as toFixed(digits) prints it
FormatFixed(n, digits) ==
    NumToStr(n \div Pow10(digits)) \o <<".">> \o padStart(NumToStr(n % Pow10(digits)), digits)

toFixed(x, digits, tieUp) == FormatFixed(RoundFixed(x, digits, tieUp), digits)

-----------------------------------------------------------------------------
(* Dates *)

\* values of a record's date field
AbsentDate       == [kind |-> "absent",  y |-> 0, m |-> 0, d |-> 0]
GarbageDate      == [kind |-> "garbage", y |-> 0, m |-> 0, d |-> 0]   \* e.g. "not-a-date"
BigIntDate       == [kind |-> "unconvertible", y |-> 0, m |-> 0, d |-> 0]   \* a BigInt such as 1n
IsoDate(y, m, d) == [kind |-> "iso", y |-> y, m |-> m, d |-> d]       \* a parseable date string

\* new Date(v): an Invalid Date for text that does not parse; throws TypeError on a BigInt
NewDateThrows(v) == v.kind = "unconvertible"
NewDate(v) == IF v.kind = "iso" THEN [valid |-> TRUE, y |-> v.y, m0 |-> v.m - 1, d |-> v.d]
              ELSE [valid |-> FALSE, y |-> 0, m0 |-> 0, d |-> 0]
getMonth(d)    == IF d.valid THEN Num(d.m0) ELSE NaN
getDate(d)     == IF d.valid THEN Num(d.d) ELSE NaN
getFullYear(d) == IF d.valid THEN Num(d.y) ELSE NaN

\* Date.prototype.toLocaleDateString('en-US'): M/D/YYYY, not padded
toLocaleDateString(now) ==
    NumToStr(now.m) \o <<"/">> \o NumToStr(now.d) \o <<"/">> \o NumToStr(now.y)

toQBDate(v, now) ==
    IF NewDateThrows(v) THEN toLocaleDateString(now)
    ELSE LET d    == NewDate(v)
             mm   == padStart(JsString(JsAdd(getMonth(d), 1)), 2)
             dd   == padStart(JsString(getDate(d)), 2)
             yyyy == JsString(getFullYear(d))
         IN  mm \o <<"/">> \o dd \o <<"/">> \o yyyy

-----------------------------------------------------------------------------
(* Raw records, normalizeLoad, resolveWeightTons *)

\* A raw record as the model carries it.  id is the record's `id` field; projectId,
\* project_id, projectName, project_name are strings or Undefined; weightTons is in units
\* of 1e-4 ton and weightLbs in pounds (0: absent or zero); status is the status field.
RawRecord(id, projectId, project_id, projectName, status, date, weightTons, weightLbs) ==
    [id |-> id, projectId |-> projectId, project_id |-> project_id,
     projectName |-> projectName, project_name |-> Undefined, status |-> status,
     date |-> date, weightTons |-> weightTons, weightLbs |-> weightLbs]

UNASSIGNED == <<"U", "N", "A", "S", "S", "I", "G", "N", "E", "D">>
UnassignedProject ==
    <<"U", "n", "a", "s", "s", "i", "g", "n", "e", "d", " ", "P", "r", "o", "j", "e", "c", "t">>

normalizeLoad(load, now) ==
    [id          |-> load.id,
     date        |-> IF load.date.kind = "absent" THEN IsoDate(now.y, now.m, now.d)
                     ELSE load.date,
     weightTons  |-> load.weightTons,
     weightLbs   |-> load.weightLbs,
     projectId   |-> Or3(load.projectId, load.project_id, UNASSIGNED),
     projectName |-> Or3(load.projectName, load.project_name, UnassignedProject)]

\* tons in units of 1e-4: (weightLbs / 2000).toFixed(4) is weightLbs * 10000 / 2000 rounded
resolveWeightTons(load, tieUp) ==
    IF load.weightTons > 0 THEN load.weightTons
    ELSE IF load.weightLbs > 0
         THEN LET num == load.weightLbs * 10000
                  q   == num \div LBS_PER_TON
                  r   == num % LBS_PER_TON
              IN  IF 2 * r > LBS_PER_TON \/ (2 * r = LBS_PER_TON /\ tieUp) THEN q + 1 ELSE q
         ELSE 0

-----------------------------------------------------------------------------
(* Plain objects used as maps: a sequence of [key, val] in insertion order *)

\* names every object inherits from Object.prototype: acc[key] finds them on an empty {}
ObjectPrototypeKeys ==
    { <<"c", "o", "n", "s", "t", "r", "u", "c", "t", "o", "r">>,
      <<"t", "o", "S", "t", "r", "i", "n", "g">>,
      <<"v", "a", "l", "u", "e", "O", "f">>,
      <<"_", "_", "p", "r", "o", "t", "o", "_", "_">> }

HasOwn(obj, key) == \E i \in 1..Len(obj) : obj[i].key = key
IndexOfKey(obj, key) == CHOOSE i \in 1..Len(obj) : obj[i].key = key

\* order of two canonical decimal strings by the numbers they denote
RECURSIVE LexLeq(_, _)
LexLeq(a, b) == IF a = <<>> THEN TRUE
                ELSE IF DigitVal(Head(a)) # DigitVal(Head(b))
                     THEN DigitVal(Head(a)) < DigitVal(Head(b))
                     ELSE LexLeq(Tail(a), Tail(b))
NumStrLeq(a, b) == Len(a) < Len(b) \/ (Len(a) = Len(b) /\ LexLeq(a, b))

\* 2^32 - 2, the largest array index
MAX_ARRAY_INDEX == <<"4", "2", "9", "4", "9", "6", "7", "2", "9", "4">>

\* an integer-like property name ("array index"): canonical decimal, at most 2^32 - 2
IsArrayIndex(key) ==
    /\ IsDigitStr(key)
    /\ Len(key) = 1 \/ key[1] # "0"
    /\ NumStrLeq(key, MAX_ARRAY_INDEX)

RECURSIVE SortByIndex(_, _)
SortByIndex(obj, idx) ==
    IF idx = {} THEN <<>>
    ELSE LET i == CHOOSE j \in idx : \A k \in idx : NumStrLeq(obj[j].key, obj[k].key)
         IN  <<obj[i]>> \o SortByIndex(obj, idx \ {i})

\* Object.entries: integer-like keys in ascending numeric order, then the other keys in
\* insertion order
ObjectEntries(obj) ==
    SortByIndex(obj, {i \in 1..Len(obj) : IsArrayIndex(obj[i].key)})
        \o SelectSeq(obj, LAMBDA e : ~IsArrayIndex(e.key))

-----------------------------------------------------------------------------
(* groupByProject *)

projectKey_camelOnly(load) == Or2(load.projectId, UNASSIGNED)
projectKey(load) == Or3(load.projectId, load.project_id, UNASSIGNED)

\* one step of the reduce; acc = [threw, obj]
groupStep(acc, load) ==
    LET key == projectKey(load) IN
    IF acc.threw THEN acc
    ELSE IF HasOwn(acc.obj, key)
         THEN LET i == IndexOfKey(acc.obj, key) IN
              [acc EXCEPT !.obj[i].val.loads = Append(@, load)]
    ELSE IF key \in ObjectPrototypeKeys
         \* !acc[key] is false (inherited member), acc[key].loads is undefined: push throws
         THEN [acc EXCEPT !.threw = TRUE]
    ELSE [acc EXCEPT !.obj = Append(@,
             [key |-> key,
              val |-> [projectId   |-> key,
                       projectName |-> Or3(load.projectName, load.project_name, key),
                       loads       |-> <<load>>]])]

RECURSIVE groupReduce(_, _)
groupReduce(acc, ls) ==
    IF ls = <<>> THEN acc ELSE groupReduce(groupStep(acc, Head(ls)), Tail(ls))

groupByProject(ls) == groupReduce([threw |-> FALSE, obj |-> <<>>], ls)

\* the byDate reduce of buildIIF / buildCSV over normalized loads
dateStep(acc, l, now) ==
    LET dateKey == toQBDate(l.date, now) IN
    IF HasOwn(acc, dateKey)
    THEN [acc EXCEPT ![IndexOfKey(acc, dateKey)].val = Append(@, l)]
    ELSE Append(acc, [key |-> dateKey, val |-> <<l>>])

RECURSIVE dateReduce(_, _, _)
dateReduce(acc, ls, now) ==
    IF ls = <<>> THEN acc ELSE dateReduce(dateStep(acc, Head(ls), now), Tail(ls), now)

byDate(ls, now) == dateReduce(<<>>, ls, now)

-----------------------------------------------------------------------------
(* Text helpers of the serializers *)

LowerCase == {"a", "b", "c", "d", "e", "f", "g", "h", "i", "j", "k", "l", "m",
              "n", "o", "p", "q", "r", "s", "t", "u", "v", "w", "x", "y", "z"}
UpperCase == {"A", "B", "C", "D", "E", "F", "G", "H", "I", "J", "K", "L", "M",
              "N", "O", "P", "Q", "R", "S", "T", "U", "V", "W", "X", "Y", "Z"}
WhiteSpace == {" ", "\t", "\n", "\r"}
CRLF == <<"\r", "\n">>

RECURSIVE trimStart(_)
trimStart(s) == IF s # <<>> /\ Head(s) \in WhiteSpace THEN trimStart(Tail(s)) ELSE s
RECURSIVE trimEnd(_)
trimEnd(s) == IF s # <<>> /\ s[Len(s)] \in WhiteSpace
              THEN trimEnd(SubSeq(s, 1, Len(s) - 1)) ELSE s
trim(s) == trimEnd(trimStart(s))

\* s.replace(/[^a-zA-Z0-9\s\-]/g, '')
stripIIF(s) == SelectSeq(s, LAMBDA c : c \in LowerCase \cup UpperCase \cup DigitSet
                                             \cup WhiteSpace \cup {"-"})
\* s.replace(/[,"\n]/g, ' ')
blankCSV(s) == [i \in 1..Len(s) |-> IF s[i] \in {",", "\"", "\n"} THEN " " ELSE s[i]]

CLASS_PREFIX == <<"L", "E", "E", "D", "-">>
qbClassIIF(projectName) == CLASS_PREFIX \o trim(stripIIF(projectName))
qbClassCSV(projectName) == CLASS_PREFIX \o trim(blankCSV(projectName))

\* `"${String(val).replace(/"/g, '""')}"`
RECURSIVE doubleQuotes(_)
doubleQuotes(s) == IF s = <<>> THEN <<>>
                   ELSE (IF Head(s) = "\"" THEN <<"\"", "\"">> ELSE <<Head(s)>>)
                            \o doubleQuotes(Tail(s))
safe(s) == <<"\"">> \o doubleQuotes(s) \o <<"\"">>

docNumOf(n) == <<"D", "S", "-">> \o NumToStr(n)

\* Array.prototype.join(sep) over lines: the separator stands between two lines only
RECURSIVE join(_, _)
join(lines, sep) ==
    IF lines = <<>> THEN <<>>
    ELSE IF Len(lines) = 1 THEN <<[t |-> "line", line |-> lines[1]]>>
    ELSE <<[t |-> "line", line |-> lines[1]], [t |-> "sep", chars |-> sep]>>
             \o join(Tail(lines), sep)

RECURSIVE Flatten(_)
Flatten(ss) == IF ss = <<>> THEN <<>> ELSE Head(ss) \o Flatten(Tail(ss))

RECURSIVE SumSeq(_)
SumSeq(ns) == IF ns = <<>> THEN 0 ELSE Head(ns) + SumSeq(Tail(ns))

-----------------------------------------------------------------------------
(* buildIIF *)

\* the amount of one load in units of 1e-4 dollar: resolveWeightTons(l) * RATE_PER_TON
amountOf(l, tieUp) == resolveWeightTons(l, tieUp) * RATE_PER_TON

iifHeaderLines == <<[kind |-> "!TRNS"], [kind |-> "!SPL"], [kind |-> "!ENDTRNS"]>>

\* the lines of one invoice: TRNS, one SPL per load, ENDTRNS
iifInvoice(group, invoiceDate, dayLoads, invoiceNumber, tieUp) ==
    LET docNum == docNumOf(invoiceNumber)
        invoiceTotal ==
            toFixed(SumSeq([i \in 1..Len(dayLoads) |-> amountOf(dayLoads[i], tieUp)]), 2, tieUp)
        trns == [kind |-> "TRNS", date |-> invoiceDate, name |-> group.projectName,
                 class |-> qbClassIIF(group.projectName), amount |-> invoiceTotal,
                 docNum |-> docNum]
        spl(load) ==
            LET tons == resolveWeightTons(load, tieUp) IN
            [kind |-> "SPL", date |-> invoiceDate, name |-> group.projectName,
             class |-> qbClassIIF(group.projectName),
             amount |-> <<"-">> \o toFixed(tons * RATE_PER_TON, 2, tieUp),
             docNum |-> docNum, qnty |-> toFixed(tons, 4, tieUp), load |-> load.id]
    IN  <<trns>> \o [i \in 1..Len(dayLoads) |-> spl(dayLoads[i])] \o <<[kind |-> "ENDTRNS"]>>

\* invoiceNumber++ : the counter after a batch has drawn its number
nextInvoiceNumber_stuck(n) == n
nextInvoiceNumber(n) == n + 1

\* for (const [invoiceDate, dayLoads] of Object.entries(byDate)): st = [lines, invoiceNumber]
RECURSIVE iifDayLoop(_, _, _, _)
iifDayLoop(st, group, days, tieUp) ==
    IF days = <<>> THEN st
    ELSE iifDayLoop(
            [lines         |-> st.lines \o iifInvoice(group, Head(days).key, Head(days).val,
                                                      st.invoiceNumber, tieUp),
             invoiceNumber |-> nextInvoiceNumber(st.invoiceNumber)],
            group, Tail(days), tieUp)

\* for (const [projectId, group] of Object.entries(projectGroups))
RECURSIVE iifGroupLoop(_, _, _, _)
iifGroupLoop(st, entries, now, tieUp) ==
    IF entries = <<>> THEN st
    ELSE LET group == Head(entries).val
             ls    == [i \in 1..Len(group.loads) |-> normalizeLoad(group.loads[i], now)]
         IN  iifGroupLoop(iifDayLoop(st, group, ObjectEntries(byDate(ls, now)), tieUp),
                          Tail(entries), now, tieUp)

buildIIF(projectGroups, now, tieUp) ==
    join(iifGroupLoop([lines |-> iifHeaderLines, invoiceNumber |-> INVOICE_START],
                      ObjectEntries(projectGroups), now, tieUp).lines,
         CRLF)

-----------------------------------------------------------------------------
(* buildCSV *)

csvHeaderLine == [kind |-> "HEADER"]

csvInvoice(group, invoiceDate, dayLoads, invoiceNumber, tieUp) ==
    LET docNum == docNumOf(invoiceNumber)
        row(load) ==
            LET tons == resolveWeightTons(load, tieUp) IN
            [kind |-> "ROW", docNum |-> safe(docNum), name |-> safe(group.projectName),
             date |-> safe(invoiceDate), qnty |-> toFixed(tons, 4, tieUp),
             amount |-> toFixed(tons * RATE_PER_TON, 2, tieUp),
             class |-> safe(qbClassCSV(group.projectName)), load |-> load.id]
    IN  [i \in 1..Len(dayLoads) |-> row(dayLoads[i])]

RECURSIVE csvDayLoop(_, _, _, _)
csvDayLoop(st, group, days, tieUp) ==
    IF days = <<>> THEN st
    ELSE csvDayLoop(
            [lines         |-> st.lines \o csvInvoice(group, Head(days).key, Head(days).val,
                                                      st.invoiceNumber, tieUp),
             invoiceNumber |-> nextInvoiceNumber(st.invoiceNumber)],
            group, Tail(days), tieUp)

RECURSIVE csvGroupLoop(_, _, _, _)
csvGroupLoop(st, entries, now, tieUp) ==
    IF entries = <<>> THEN st
    ELSE LET group == Head(entries).val
             ls    == [i \in 1..Len(group.loads) |-> normalizeLoad(group.loads[i], now)]
         IN  csvGroupLoop(csvDayLoop(st, group, ObjectEntries(byDate(ls, now)), tieUp),
                          Tail(entries), now, tieUp)

buildCSV(projectGroups, now, tieUp) ==
    join(csvGroupLoop([lines |-> <<csvHeaderLine>>, invoiceNumber |-> INVOICE_START],
                      ObjectEntries(projectGroups), now, tieUp).lines,
         CRLF)

-----------------------------------------------------------------------------
(* The synchronous part of generateIIF / generateCSV: groupByProject, then the *)
(* serializer.  A TypeError thrown on the way is caught by the caller.         *)

NotRun == [done |-> FALSE, ok |-> FALSE, groups |-> <<>>, doc |-> <<>>]

exportIIF(ls, now, tieUp) ==
    LET g == groupByProject(ls) IN
    IF g.threw THEN [done |-> TRUE, ok |-> FALSE, groups |-> <<>>, doc |-> <<>>]
    ELSE [done |-> TRUE, ok |-> TRUE, groups |-> g.obj, doc |-> buildIIF(g.obj, now, tieUp)]

exportCSV(ls, now, tieUp) ==
    LET g == groupByProject(ls) IN
    IF g.threw THEN [done |-> TRUE, ok |-> FALSE, groups |-> <<>>, doc |-> <<>>]
    ELSE [done |-> TRUE, ok |-> TRUE, groups |-> g.obj, doc |-> buildCSV(g.obj, now, tieUp)]

-----------------------------------------------------------------------------
(* Inputs of the model *)

P7          == <<"7">>
P3          == <<"3">>
PAlpha      == <<"a", "l", "p", "h", "a">>
PConstructor == <<"c", "o", "n", "s", "t", "r", "u", "c", "t", "o", "r">>
NameAlpha   == <<"A", "l", "p", "h", "a">>
NameBeta    == <<"B", ",", "\"", "e", "t", "a">>

Clock == {[y |-> 2026, m |-> 11, d |-> 5]}

\* records handed to the synchronous export
ExportRecords ==
    { RawRecord(1, P7, Undefined, NameAlpha, "confirmed", IsoDate(2026, 3, 5), 10001, 0),
      RawRecord(2, P7, Undefined, NameAlpha, "confirmed", IsoDate(2026, 3, 5), 10001, 0),
      RawRecord(3, P7, Undefined, NameAlpha, "confirmed", IsoDate(2026, 3, 5), 10001, 0),
      RawRecord(4, P7, Undefined, NameAlpha, "confirmed", IsoDate(2026, 12, 25), 25000, 0),
      RawRecord(5, Undefined, P3, NameBeta, "confirmed", GarbageDate, 0, 4000),
      RawRecord(6, Undefined, Undefined, Undefined, "confirmed", BigIntDate, 10000, 0),
      RawRecord(7, PAlpha, Undefined, Undefined, "confirmed", AbsentDate, 0, 0),
      RawRecord(8, PConstructor, Undefined, NameAlpha, "confirmed", IsoDate(2026, 3, 5), 10000, 0),
      RawRecord(9, P7, P3, NameAlpha, "confirmed", IsoDate(2026, 3, 5), 10000, 0),
      RawRecord(10, <<>>, P3, NameBeta, "confirmed", IsoDate(2026, 3, 5), 10000, 0) }

\* the sequences of length 1..n of distinct elements of S
RECURSIVE DistinctSeqs(_, _)
DistinctSeqs(S, n) ==
    IF n = 0 THEN {<<>>}
    ELSE LET shorter == DistinctSeqs(S, n - 1) IN
         shorter \cup { Append(q, x) : q \in {r \in shorter : Len(r) = n - 1},
                                       x \in S } 

Range(q) == {q[i] : i \in 1..Len(q)}
Injective(q) == \A i, j \in 1..Len(q) : q[i] = q[j] => i = j

ExportInputs == {q \in DistinctSeqs(ExportRecords, MaxInput) : q # <<>> /\ Injective(q)}

StoreRecords ==
    { RawRecord(1, P7, Undefined, NameAlpha, "confirmed", IsoDate(2026, 3, 5), 25000, 0),
      RawRecord(2, Undefined, P3, NameBeta, "synced", GarbageDate, 0, 4000),
      RawRecord(3, P7, Undefined, NameAlpha, "draft", IsoDate(2026, 3, 5), 10000, 0),
      RawRecord(4, P7, Undefined, NameAlpha, "pending_upload", IsoDate(2026, 3, 5), 10000, 0) }
\* store.getAll() yields the records in key order: a store holds a subsequence of these
StoreOrder == <<1, 3, 2, 4>>
StoreRecord(id) == CHOOSE r \in StoreRecords : r.id = id
StoreContents ==
    { [i \in 1..Len(q) |-> StoreRecord(q[i])] :
        q \in { SelectSeq(StoreOrder, LAMBDA id : id \in ids) :
                   ids \in {S \in SUBSET Range(StoreOrder) : Cardinality(S) <= MaxStore} } }

RemoteRecords ==
    { RawRecord(11, P7, Undefined, NameAlpha, "confirmed", IsoDate(2026, 3, 5), 25000, 0),
      RawRecord(12, PConstructor, Undefined, NameAlpha, "confirmed", IsoDate(2026, 3, 5), 10000, 0) }
R11 == CHOOSE r \in RemoteRecords : r.id = 11
R12 == CHOOSE r \in RemoteRecords : r.id = 12

\* what resp.json() can deliver: {loads: [...]}, a bare array, an object without loads,
\* or text that does not parse
Bodies ==
    { [shape |-> "wrapped", loads |-> <<R11>>],     [shape |-> "wrapped", loads |-> <<>>],
      [shape |-> "array",   loads |-> <<R12, R11>>], [shape |-> "array",   loads |-> <<>>],
      [shape |-> "object",  loads |-> <<>>],        [shape |-> "invalid", loads |-> <<>>] }

Scopes == {Undefined, P7, P3}
Procs  == {"iif", "csv"}

-----------------------------------------------------------------------------
(* getLoadsFromDB, getLoadsFromAPI, resolveLoads *)

\* String(v)
String(v) == IF v = Undefined THEN <<"u", "n", "d", "e", "f", "i", "n", "e", "d">> ELSE v

IsConfirmed(l) == l.status # "draft" /\ l.status # "pending_upload"

\* allRequest.onsuccess: the scope filter, then the status filter
localResult(records, projectId) ==
    LET scoped == IF ~Falsy(projectId)
                  THEN SelectSeq(records, LAMBDA l : String(l.projectId) = String(projectId))
                  ELSE records
    IN  SelectSeq(scoped, IsConfirmed)

\* the value getLoadsFromAPI returns for a body: data.loads || data || [], null on a throw
apiResult(body) ==
    IF body.shape = "invalid" THEN [isNull |-> TRUE, isArray |-> FALSE, items |-> <<>>]
    ELSE IF body.shape = "object" THEN [isNull |-> FALSE, isArray |-> FALSE, items |-> <<>>]
    ELSE [isNull |-> FALSE, isArray |-> TRUE, items |-> body.loads]
ApiNull == [isNull |-> TRUE, isArray |-> FALSE, items |-> <<>>]

\* if (apiLoads && apiLoads.length > 0) loads = apiLoads
adoptRemote(ls, apiLoads) ==
    IF ~apiLoads.isNull /\ apiLoads.isArray /\ Len(apiLoads.items) > 0
    THEN apiLoads.items ELSE ls

\* the condition under which resolveLoads queries the API
needsRemote_whenOnline(ls, online) == online
needsRemote(ls, online) == Len(ls) = 0 /\ online

\* the condition under which resolveLoads throws the "No confirmed loads found" error
isNoData_never(ls) == FALSE
isNoData(ls) == Len(ls) = 0

\* resolveLoads awaits getLoadsFromAPI once: whatever it returned, there is no second call
remoteRetry_onNull(apiLoads) == apiLoads.isNull
remoteRetry(apiLoads) == FALSE

\* the clearTimeout(timeout) after `await fetch`: the timer stays armed or not
timerAfterHeaders(armed) == FALSE

-----------------------------------------------------------------------------
(* buildSummary, generateIIF / generateCSV results *)

buildSummary(projectGroups, now, tieUp) ==
    LET entries == ObjectEntries(projectGroups) IN
    [g \in 1..Len(entries) |->
        LET ls == [i \in 1..Len(entries[g].val.loads) |->
                       normalizeLoad(entries[g].val.loads[i], now)]
            totalTons == SumSeq([i \in 1..Len(ls) |-> resolveWeightTons(ls[i], tieUp)])
        IN  [id |-> entries[g].key, projectName |-> entries[g].val.projectName,
             loadCount |-> Len(ls), totalTons |-> toFixed(totalTons, 2, tieUp)]]

NoResult == [settled |-> FALSE, success |-> FALSE, error |-> "", format |-> "",
             summary |-> <<>>]
Failure(msg) == [settled |-> TRUE, success |-> FALSE, error |-> msg, format |-> "",
                 summary |-> <<>>]
Success(fmt, summary) == [settled |-> TRUE, success |-> TRUE, error |-> "", format |-> fmt,
                          summary |-> summary]

formatOf(p) == IF p = "iif" THEN "IIF" ELSE "CSV"
exportOf(p, ls, now, tieUp) ==
    IF p = "iif" THEN exportIIF(ls, now, tieUp) ELSE exportCSV(ls, now, tieUp)

\* the value the pipeline resolves with once resolveLoads has produced ls (or thrown)
pipelineResult(p, ls, now, tieUp) ==
    IF isNoData(ls) THEN Failure("NoData")
    ELSE LET out == exportOf(p, ls, now, tieUp) IN
         IF out.ok THEN Success(formatOf(p), buildSummary(out.groups, now, tieUp))
         ELSE Failure("TypeError")

\* Promise.all over the two pipeline promises (neither ever rejects: both catch)
promiseAllSettled_any(results) == \E p \in Procs : results[p].settled
promiseAllSettled(results) == \A p \in Procs : results[p].settled

NoAll == [returned |-> FALSE, iif |-> NoResult, csv |-> NoResult]

-----------------------------------------------------------------------------
(* Initial states *)

EnvInit ==
    /\ dbState \in {"loads", "scans", "none"}
    /\ dbRecords \in StoreContents
    /\ onLine \in BOOLEAN
    /\ today \in Clock
    /\ fpTieUp = TRUE

PipeInit ==
    /\ call = "none"
    /\ scope = [p \in Procs |-> Undefined]
    /\ pc = [p \in Procs |-> "idle"]
    /\ loads = [p \in Procs |-> <<>>]
    /\ timerArmed = [p \in Procs |-> FALSE]
    /\ aborted = [p \in Procs |-> FALSE]
    /\ elapsedMs = [p \in Procs |-> 0]
    /\ trace = [p \in Procs |-> <<>>]
    /\ sawOnline = [p \in Procs |-> "unread"]
    /\ result = [p \in Procs |-> NoResult]
    /\ downloaded = [p \in Procs |-> <<>>]
    /\ allResult = NoAll

ExpIdle == input = <<>> /\ iifOut = NotRun /\ csvOut = NotRun

Init == EnvInit /\ PipeInit /\ ExpIdle

-----------------------------------------------------------------------------
(* Actions of the asynchronous side *)

LocalPending(p)  == pc[p] \in {"dbOpen", "dbGetAll"}
RemotePending(p) == pc[p] \in {"fetch", "json"}
\* the timer's delay has run out and its callback is the next thing to happen
TimerDue(p)      == timerArmed[p] /\ elapsedMs[p] >= TIMEOUT_MS

\* generateIIF(s) / generateCSV(s): runs up to indexedDB.open inside getLoadsFromDB
StartPipeline(p, s) ==
    /\ scope' = [scope EXCEPT ![p] = s]
    /\ pc' = [pc EXCEPT ![p] = "dbOpen"]
    /\ trace' = [trace EXCEPT ![p] = Append(@, "local:start")]

CallGenerateIIF(s) ==
    /\ call = "none"
    /\ call' = "iif"
    /\ StartPipeline("iif", s)
    /\ UNCHANGED <<envVars, expVars, loads, timerArmed, aborted, elapsedMs, sawOnline,
                   result, downloaded, allResult>>

CallGenerateCSV(s) ==
    /\ call = "none"
    /\ call' = "csv"
    /\ StartPipeline("csv", s)
    /\ UNCHANGED <<envVars, expVars, loads, timerArmed, aborted, elapsedMs, sawOnline,
                   result, downloaded, allResult>>

\* generateAll(): Promise.all([generateIIF(), generateCSV()]) starts both, scope null
CallGenerateAll ==
    /\ call = "none"
    /\ call' = "all"
    /\ scope' = [p \in Procs |-> Undefined]
    /\ pc' = [p \in Procs |-> "dbOpen"]
    /\ trace' = [p \in Procs |-> <<"local:start">>]
    /\ UNCHANGED <<envVars, expVars, loads, timerArmed, aborted, elapsedMs, sawOnline,
                   result, downloaded, allResult>>

\* the end of resolveLoads and the rest of generateIIF / generateCSV
Finish(p, ls, tr) ==
    LET r   == pipelineResult(p, ls, today, fpTieUp)
        out == exportOf(p, ls, today, fpTieUp)
    IN  /\ pc' = [pc EXCEPT ![p] = "done"]
        /\ loads' = [loads EXCEPT ![p] = ls]
        /\ trace' = [trace EXCEPT ![p] = tr]
        /\ result' = [result EXCEPT ![p] = r]
        /\ downloaded' = [downloaded EXCEPT ![p] = IF r.success THEN out.doc ELSE <<>>]
        /\ elapsedMs' = [elapsedMs EXCEPT ![p] = 0]

\* getLoadsFromAPI up to `await fetch`
IssueFetch(p, ls, tr) ==
    /\ pc' = [pc EXCEPT ![p] = "fetch"]
    /\ loads' = [loads EXCEPT ![p] = ls]
    /\ trace' = [trace EXCEPT ![p] = Append(tr, "remote:start")]
    /\ timerArmed' = [timerArmed EXCEPT ![p] = TRUE]
    /\ aborted' = [aborted EXCEPT ![p] = FALSE]
    /\ elapsedMs' = [elapsedMs EXCEPT ![p] = 0]
    /\ UNCHANGED <<result, downloaded>>

\* resolveLoads after `await getLoadsFromDB(projectId).catch(() => [])` yielded ls;
\* navigator.onLine is read only when ls is empty
AfterLocal(p, ls, ev) ==
    LET tr == Append(trace[p], ev) IN
    /\ sawOnline' = [sawOnline EXCEPT ![p] =
           IF Len(ls) # 0 THEN "unread" ELSE IF onLine THEN "online" ELSE "offline"]
    /\ IF needsRemote(ls, onLine)
       THEN IssueFetch(p, ls, tr)
       ELSE Finish(p, ls, tr) /\ UNCHANGED <<timerArmed, aborted>>

\* resolveLoads after `await getLoadsFromAPI(projectId)` yielded apiLoads
AfterRemote(p, apiLoads, armed, abrt, ev) ==
    LET tr == Append(trace[p], ev) IN
    /\ UNCHANGED sawOnline
    /\ IF remoteRetry(apiLoads)
       THEN IssueFetch(p, loads[p], tr)
       ELSE /\ Finish(p, adoptRemote(loads[p], apiLoads), tr)
            /\ timerArmed' = [timerArmed EXCEPT ![p] = armed]
            /\ aborted' = [aborted EXCEPT ![p] = abrt]

\* request.onerror: the promise rejects, resolveLoads' catch turns it into []
DbOpenError(p) ==
    /\ pc[p] = "dbOpen"
    /\ AfterLocal(p, <<>>, "local:rejected(IndexedDB unavailable)")
    /\ UNCHANGED <<envVars, expVars, call, scope, allResult>>

\* request.onsuccess: no store resolves [], otherwise store.getAll() is issued
DbOpenSuccess(p) ==
    /\ pc[p] = "dbOpen"
    /\ IF dbState = "none"
       THEN AfterLocal(p, <<>>, "local:resolved")
       ELSE /\ pc' = [pc EXCEPT ![p] = "dbGetAll"]
            /\ UNCHANGED <<loads, timerArmed, aborted, elapsedMs, trace, sawOnline, result,
                           downloaded>>
    /\ UNCHANGED <<envVars, expVars, call, scope, allResult>>

\* allRequest.onsuccess
DbGetAllSuccess(p) ==
    /\ pc[p] = "dbGetAll"
    /\ AfterLocal(p, localResult(dbRecords, scope[p]), "local:resolved")
    /\ UNCHANGED <<envVars, expVars, call, scope, allResult>>

\* allRequest.onerror
DbGetAllError(p) ==
    /\ pc[p] = "dbGetAll"
    /\ AfterLocal(p, <<>>, "local:rejected(Failed to read loads from IndexedDB)")
    /\ UNCHANGED <<envVars, expVars, call, scope, allResult>>

\* fetch resolves with the response's status line and headers; the body is still to come
FetchResponse(p, ok) ==
    /\ pc[p] = "fetch"
    /\ ~TimerDue(p)
    /\ IF ok
       THEN /\ pc' = [pc EXCEPT ![p] = "json"]
            /\ timerArmed' = [timerArmed EXCEPT ![p] = timerAfterHeaders(@)]
            /\ UNCHANGED <<loads, aborted, elapsedMs, trace, sawOnline, result, downloaded>>
       ELSE \* !resp.ok: throw, caught, null
            AfterRemote(p, ApiNull, timerAfterHeaders(timerArmed[p]), aborted[p],
                        "remote:null(API error)")
    /\ UNCHANGED <<envVars, expVars, call, scope, allResult>>

\* fetch rejects (network error): caught, clearTimeout, null
FetchError(p) ==
    /\ pc[p] = "fetch"
    /\ ~TimerDue(p)
    /\ AfterRemote(p, ApiNull, FALSE, aborted[p], "remote:null(network)")
    /\ UNCHANGED <<envVars, expVars, call, scope, allResult>>

\* the 15 s timer fires: controller.abort(), the pending request rejects with AbortError
TimerFires(p) ==
    /\ TimerDue(p)
    /\ RemotePending(p)
    /\ AfterRemote(p, ApiNull, FALSE, TRUE, "remote:null(AbortError)")
    /\ UNCHANGED <<envVars, expVars, call, scope, allResult>>

\* resp.json() settles with the parsed body (or rejects on text that does not parse)
JsonDelivered(p, body) ==
    /\ pc[p] = "json"
    /\ ~TimerDue(p)
    /\ AfterRemote(p, apiResult(body), timerArmed[p], aborted[p],
                   IF apiResult(body).isNull THEN "remote:null(parse)" ELSE "remote:value")
    /\ UNCHANGED <<envVars, expVars, call, scope, allResult>>

\* time passes while a remote query is pending; an armed timer fires when it is due
Min(a, b) == IF a < b THEN a ELSE b
Tick ==
    /\ \E p \in Procs : RemotePending(p)
    /\ \A p \in Procs : RemotePending(p) =>
           /\ elapsedMs[p] < MaxTicks * TickMs
           /\ ~TimerDue(p)
    /\ elapsedMs' = [p \in Procs |->
           IF ~RemotePending(p) THEN elapsedMs[p]
           ELSE IF timerArmed[p] THEN Min(elapsedMs[p] + TickMs, TIMEOUT_MS)
           ELSE elapsedMs[p] + TickMs]
    /\ UNCHANGED <<envVars, expVars, call, scope, pc, loads, timerArmed, aborted, trace,
                   sawOnline, result, downloaded, allResult>>

\* the browser's connectivity report changes (followed while a pipeline has yet to read it)
NetworkChange ==
    /\ \E p \in Procs : LocalPending(p)
    /\ onLine' = ~onLine
    /\ UNCHANGED <<dbState, dbRecords, today, fpTieUp, pipeVars, expVars>>

\* generateAll resolves: return { iif: iifResult, csv: csvResult }
ReturnAll ==
    /\ call = "all"
    /\ ~allResult.returned
    /\ promiseAllSettled(result)
    /\ allResult' = [returned |-> TRUE, iif |-> result["iif"], csv |-> result["csv"]]
    /\ UNCHANGED <<envVars, expVars, call, scope, pc, loads, timerArmed, aborted, elapsedMs,
                   trace, sawOnline, result, downloaded>>

Next ==
    \/ CallGenerateAll
    \/ \E s \in Scopes : CallGenerateIIF(s)
    \/ \E s \in Scopes : CallGenerateCSV(s)
    \/ \E p \in Procs : DbOpenError(p)
    \/ \E p \in Procs : DbOpenSuccess(p)
    \/ \E p \in Procs : DbGetAllSuccess(p)
    \/ \E p \in Procs : DbGetAllError(p)
    \/ \E p \in Procs, ok \in BOOLEAN : FetchResponse(p, ok)
    \/ \E p \in Procs : FetchError(p)
    \/ \E p \in Procs : TimerFires(p)
    \/ \E p \in Procs, body \in Bodies : JsonDelivered(p, body)
    \/ Tick
    \/ NetworkChange
    \/ ReturnAll

Spec == Init /\ [][Next]_vars

-----------------------------------------------------------------------------
(* The synchronous export on its own *)

InitExport ==
    /\ dbState = "loads"
    /\ dbRecords = <<>>
    /\ onLine = FALSE
    /\ today \in Clock
    /\ fpTieUp \in BOOLEAN
    /\ PipeInit
    /\ input \in ExportInputs
    /\ iifOut = NotRun
    /\ csvOut = NotRun

\* const groups = groupByProject(loads); const iifContent = buildIIF(groups)
RunExportIIF ==
    /\ ~iifOut.done
    /\ iifOut' = exportIIF(input, today, fpTieUp)
    /\ UNCHANGED <<envVars, pipeVars, input, csvOut>>

\* const groups = groupByProject(loads); const csvContent = buildCSV(groups)
RunExportCSV ==
    /\ ~csvOut.done
    /\ csvOut' = exportCSV(input, today, fpTieUp)
    /\ UNCHANGED <<envVars, pipeVars, input, iifOut>>

NextExport == RunExportIIF \/ RunExportCSV

SpecExport == InitExport /\ [][NextExport]_vars

-----------------------------------------------------------------------------
(* Reading an emitted document *)

DocLines(doc) ==
    LET ps == SelectSeq(doc, LAMBDA x : x.t = "line") IN [i \in 1..Len(ps) |-> ps[i].line]
DetailLines(doc) == SelectSeq(DocLines(doc), LAMBDA l : l.kind \in {"SPL", "ROW"})
HeaderLines(doc) == SelectSeq(DocLines(doc), LAMBDA l : l.kind = "TRNS")

\* the number of cents a printed amount denotes, sign dropped
ParseCents(chars) ==
    StrToNum(SelectSeq(IF chars # <<>> /\ Head(chars) = "-" THEN Tail(chars) ELSE chars,
                       LAMBDA c : c # "."))

InputRecord(id) == CHOOSE r \in Range(input) : r.id = id
IdsOf(ls) == [i \in 1..Len(ls) |-> ls[i].id]

\* the Billing Batch an input record belongs to: its project and its formatted date
BatchKey(r) == <<projectKey(r), toQBDate(normalizeLoad(r, today).date, today)>>

\* the distinct values of a sequence, in order of first appearance
RECURSIVE FirstAppearances(_)
FirstAppearances(q) ==
    IF q = <<>> THEN <<>>
    ELSE LET rest == FirstAppearances(SubSeq(q, 1, Len(q) - 1)) IN
         IF q[Len(q)] \in Range(rest) THEN rest ELSE Append(rest, q[Len(q)])
PositionIn(q, x) == CHOOSE i \in 1..Len(q) : q[i] = x

WellFormedMMDDYYYY(s) ==
    /\ Len(s) = 10
    /\ s[3] = "/" /\ s[6] = "/"
    /\ \A i \in {1, 2, 4, 5, 7, 8, 9, 10} : s[i] \in DigitSet
PaddedToday ==
    padStart(NumToStr(today.m), 2) \o <<"/">> \o padStart(NumToStr(today.d), 2)
        \o <<"/">> \o padStart(NumToStr(today.y), 4)
Malformed(r) == r.date.kind \in {"garbage", "unconvertible"}

-----------------------------------------------------------------------------
(* Claims about the serializers, under SpecExport *)

\* C6: in every Format A document, the amount of each transaction-header line equals the
\* sum of the absolute amounts of the detail lines of the same invoice, both as printed
\* with two decimals.
C6_HeaderEqualsDetailSum ==
    iifOut.ok =>
        \A h \in Range(HeaderLines(iifOut.doc)) :
            LET details == SelectSeq(DetailLines(iifOut.doc),
                                     LAMBDA l : l.docNum = h.docNum)
            IN  ParseCents(h.amount)
                    = SumSeq([i \in 1..Len(details) |-> ParseCents(details[i].amount)])

\* the numbering of the detail lines of a document: the k-th batch to appear carries
\* DS-(1000+k-1) on every one of its lines (inside double quotes in Format B)
NumberedInOrder(doc, quoted) ==
    LET rows    == DetailLines(doc)
        keys    == [i \in 1..Len(rows) |-> BatchKey(InputRecord(rows[i].load))]
        batches == FirstAppearances(keys)
    IN  \A i \in 1..Len(rows) :
            LET n == docNumOf(INVOICE_START + PositionIn(batches, keys[i]) - 1) IN
            rows[i].docNum = IF quoted THEN <<"\"">> \o n \o <<"\"">> ELSE n

\* C7: in both formats the k-th Billing Batch emitted, counted across all Project Groups,
\* carries document number DS-(1000+k-1) on its header line and on every detail line, so
\* numbers rise by one per batch and no two batches share one.
C7_InvoiceNumbering ==
    /\ iifOut.ok =>
          /\ NumberedInOrder(iifOut.doc, FALSE)
          /\ LET hs == HeaderLines(iifOut.doc) IN
             /\ \A k \in 1..Len(hs) : hs[k].docNum = docNumOf(INVOICE_START + k - 1)
             /\ Len(hs) = Cardinality({BatchKey(r) : r \in Range(input)})
    /\ csvOut.ok => NumberedInOrder(csvOut.doc, TRUE)

\* C7 witness: both documents built from three batches in two Project Groups
C7_Witness ==
    /\ iifOut.ok /\ csvOut.ok
    /\ Len(HeaderLines(iifOut.doc)) >= 3
    /\ Cardinality({projectKey(r) : r \in Range(input)}) >= 2

\* C8: once groupByProject and the byDate reduction have run on an input, every record is
\* in exactly one Project Group and in exactly one Billing Batch, none is dropped or
\* duplicated, and groups and batches keep the input's relative order.
C8_GroupingTotal ==
    iifOut.done =>
        /\ iifOut.ok
        /\ \A r \in Range(input) :
              Cardinality({g \in 1..Len(iifOut.groups) :
                              r \in Range(iifOut.groups[g].val.loads)}) = 1
        /\ \A g \in 1..Len(iifOut.groups) :
              iifOut.groups[g].val.loads
                  = SelectSeq(input, LAMBDA r : projectKey(r) = iifOut.groups[g].key)
        /\ LET rows == DetailLines(iifOut.doc) IN
           /\ \A r \in Range(input) :
                 Cardinality({i \in 1..Len(rows) : rows[i].load = r.id}) = 1
           /\ \A h \in Range(HeaderLines(iifOut.doc)) :
                 LET mine == SelectSeq(rows, LAMBDA l : l.docNum = h.docNum)
                     key  == BatchKey(InputRecord(mine[1].load))
                 IN  [i \in 1..Len(mine) |-> mine[i].load]
                         = IdsOf(SelectSeq(input, LAMBDA r : BatchKey(r) = key))

\* C9: the export of an input with a malformed date does not fail, the load is batched
\* under the current date as MM/DD/YYYY, and every batch key emitted is a well-formed
\* MM/DD/YYYY date.
C9_MalformedDateUsesToday ==
    (iifOut.done /\ \A r \in Range(input) : projectKey(r) \notin ObjectPrototypeKeys) =>
        /\ iifOut.ok
        /\ \A l \in Range(DetailLines(iifOut.doc)) :
              /\ WellFormedMMDDYYYY(l.date)
              /\ Malformed(InputRecord(l.load)) => l.date = PaddedToday

\* C10: every line of a document, the last included, is followed by CR LF: a document that
\* is not empty ends with CR LF.
EndsWithCRLF(doc) == doc # <<>> => doc[Len(doc)] = [t |-> "sep", chars |-> CRLF]
C10_EndsWithCRLF ==
    /\ iifOut.ok => EndsWithCRLF(iifOut.doc)
    /\ csvOut.ok => EndsWithCRLF(csvOut.doc)

\* the text of a double-quoted Format B field: the outer quotes dropped, "" read as "
RECURSIVE undoubleQuotes(_)
undoubleQuotes(s) ==
    IF s = <<>> THEN <<>>
    ELSE IF Len(s) >= 2 /\ s[1] = "\"" /\ s[2] = "\""
         THEN <<"\"">> \o undoubleQuotes(SubSeq(s, 3, Len(s)))
    ELSE <<Head(s)>> \o undoubleQuotes(Tail(s))
readQuoted(s) == undoubleQuotes(SubSeq(s, 2, Len(s) - 1))

\* the display name of the Project Group that holds a load
GroupNameOf(groups, id) ==
    LET g == CHOOSE i \in 1..Len(groups) :
                 \E k \in 1..Len(groups[i].val.loads) : groups[i].val.loads[k].id = id
    IN  groups[g].val.projectName

\* the class label of a display name: the prefix, then the name with every character
\* other than a letter, a digit, a space or a hyphen removed, trimmed
LabelChars == LowerCase \cup UpperCase \cup DigitSet \cup {" ", "-"}
ClassLabel(name) == CLASS_PREFIX \o trim(SelectSeq(name, LAMBDA c : c \in LabelChars))

\* C11: in both formats the class label on every detail line is the display name of the
\* line's Project Group with every character other than a letter, a digit, a space or a
\* hyphen removed and then trimmed, so the two formats carry the same label for a group.
C11_SameClassLabel ==
    /\ iifOut.ok =>
          \A l \in Range(DetailLines(iifOut.doc)) :
              l.class = ClassLabel(GroupNameOf(iifOut.groups, l.load))
    /\ csvOut.ok =>
          \A l \in Range(DetailLines(csvOut.doc)) :
              readQuoted(l.class) = ClassLabel(GroupNameOf(csvOut.groups, l.load))

\* the records filed in the groups of a grouping, each with the key of its group
Filed(groups) ==
    UNION { { [key |-> groups[i].key, load |-> groups[i].val.loads[k]] :
                k \in 1..Len(groups[i].val.loads) } : i \in 1..Len(groups) }

\* C12: for every Raw Record, whichever of its two project fields are present, the key
\* under which groupByProject files it equals the project identifier normalizeLoad gives
\* it; the identifier is never empty and is "UNASSIGNED" when both fields are absent.
C12_KeyEqualsNormalizedId ==
    \A out \in {iifOut, csvOut} :
        out.ok =>
            \A f \in Filed(out.groups) :
                LET id == normalizeLoad(f.load, today).projectId IN
                /\ f.key = id
                /\ id # <<>> /\ id # Undefined
                /\ (Falsy(f.load.projectId) /\ Falsy(f.load.project_id)) => id = UNASSIGNED

\* C12 witness: one grouping that filed a record with only the underscore field, a record
\* with neither field and a record with both fields
C12_Witness ==
    /\ iifOut.ok
    /\ \E f \in Filed(iifOut.groups) :
           Falsy(f.load.projectId) /\ ~Falsy(f.load.project_id)
    /\ \E f \in Filed(iifOut.groups) :
           Falsy(f.load.projectId) /\ Falsy(f.load.project_id) /\ f.key = UNASSIGNED
    /\ \E f \in Filed(iifOut.groups) :
           ~Falsy(f.load.projectId) /\ ~Falsy(f.load.project_id)
               /\ f.load.projectId # f.load.project_id

-----------------------------------------------------------------------------
(* Claims about the Load Resolver and generateAll, under Spec *)

LocalEnds  == {"local:resolved", "local:rejected(IndexedDB unavailable)",
               "local:rejected(Failed to read loads from IndexedDB)"}
LocalFailures == LocalEnds \ {"local:resolved"}
RemoteEnds == {"remote:value", "remote:null(API error)", "remote:null(network)",
               "remote:null(AbortError)", "remote:null(parse)"}
Count(tr, S) == Cardinality({i \in 1..Len(tr) : tr[i] \in S})
Occurs(tr, S) == \E i \in 1..Len(tr) : tr[i] \in S

\* the confirmed records of the store that the local source holds for a pipeline's scope
ConfirmedLocal(p) ==
    SelectSeq(dbRecords,
              LAMBDA r : /\ scope[p] = Undefined \/ String(r.projectId) = String(scope[p])
                         /\ r.status \notin {"draft", "pending_upload"})
\* the local query of the pipeline delivered the store's records
LocalDelivered(p) == dbState # "none" /\ Occurs(trace[p], {"local:resolved"})

\* C1: when the local source yields at least one confirmed record for the scope, the
\* resolver's result is exactly the confirmed local records in local order, drafts and
\* pending uploads excluded, and the remote source is not queried, online or not.
C1_LocalAuthoritative ==
    \A p \in Procs :
        (LocalDelivered(p) /\ ConfirmedLocal(p) # <<>>) =>
            /\ ~Occurs(trace[p], {"remote:start"})
            /\ pc[p] = "done"
            /\ loads[p] = ConfirmedLocal(p)
            /\ result[p].error # "NoData"

\* C1 witness: a store with a draft beside a confirmed record, the network online, the
\* pipeline finished on the local records
C1_Witness ==
    \E p \in Procs :
        /\ pc[p] = "done" /\ LocalDelivered(p) /\ onLine
        /\ ConfirmedLocal(p) # <<>>
        /\ Len(ConfirmedLocal(p)) < Len(dbRecords)
        /\ result[p].success

\* C2: the resolver never returns an empty sequence and fails with NoData exactly when its
\* final sequence is empty; with the local source failed or empty and the network offline
\* it fails with NoData without querying the remote; a local failure is not surfaced.
C2_NoDataIffEmpty ==
    \A p \in Procs :
        pc[p] = "done" =>
            /\ result[p].error = "NoData" <=> loads[p] = <<>>
            /\ result[p].success => loads[p] # <<>>
            /\ sawOnline[p] = "offline" =>
                  /\ result[p].error = "NoData"
                  /\ ~Occurs(trace[p], {"remote:start"})
            /\ Occurs(trace[p], LocalFailures) =>
                  /\ sawOnline[p] # "unread"
                  /\ result[p].error \in {"", "NoData", "TypeError"}

\* C2 witness: the local query was rejected, the network was offline, the call failed
\* with NoData
C2_Witness ==
    \E p \in Procs :
        /\ pc[p] = "done"
        /\ Occurs(trace[p], LocalFailures)
        /\ sawOnline[p] = "offline"
        /\ result[p].error = "NoData"

\* C3: once the remote query is issued the resolver never waits on it (for the status or
\* for the body) longer than the 15-second timer.
C3_BoundedWait ==
    \A p \in Procs : RemotePending(p) => elapsedMs[p] <= TIMEOUT_MS

\* C4: one resolver call queries the local source exactly once and the remote source at
\* most once (no retry), and issues the remote query only after the local query has
\* settled: the two are never in flight together.
C4_OneQueryEachInOrder ==
    \A p \in Procs :
        LET tr == trace[p] IN
        /\ Count(tr, {"local:start"}) = (IF pc[p] = "idle" THEN 0 ELSE 1)
        /\ Count(tr, {"remote:start"}) <= 1
        /\ \A i \in 1..Len(tr) :
              tr[i] = "remote:start" => \E j \in 1..(i - 1) : tr[j] \in LocalEnds
        /\ ~(/\ Count(tr, {"local:start"}) > Count(tr, LocalEnds)
             /\ Count(tr, {"remote:start"}) > Count(tr, RemoteEnds))
        /\ pc[p] = "done" => /\ Count(tr, LocalEnds) = 1
                             /\ Count(tr, RemoteEnds) = Count(tr, {"remote:start"})

\* C4 witness: a call whose remote query timed out and which then finished
C4_Witness ==
    \E p \in Procs : pc[p] = "done" /\ Occurs(trace[p], {"remote:null(AbortError)"})

\* C5: generateAll returns only after both pipelines have finished and returns both
\* results; each pipeline's result comes from its own resolver call, whatever the other
\* one did.
OwnResult(p) ==
    /\ result[p].settled
    /\ result[p].error = "NoData" <=> loads[p] = <<>>
    /\ result[p].success =>
          /\ result[p].format = formatOf(p)
          /\ SumSeq([g \in 1..Len(result[p].summary) |-> result[p].summary[g].loadCount])
                 = Len(loads[p])
C5_AllAfterBoth ==
    /\ \A p \in Procs : pc[p] = "done" => OwnResult(p)
    /\ allResult.returned =>
          /\ \A p \in Procs : pc[p] = "done"
          /\ allResult.iif = result["iif"] /\ allResult.iif.settled
          /\ allResult.csv = result["csv"] /\ allResult.csv.settled

\* C5 witness: generateAll returned with one pipeline failed with NoData and the other
\* successful
C5_Witness ==
    /\ allResult.returned
    /\ allResult.iif.error = "NoData"
    /\ allResult.csv.success

\* the confirmed records of the store whose project identifier, resolved as Project
\* Grouping resolves it, is the pipeline's scope
ScopedConfirmed(p) ==
    SelectSeq(dbRecords, LAMBDA r : IsConfirmed(r) /\ projectKey(r) = scope[p])

\* C13: a scoped local query yields exactly the confirmed local records whose project
\* identifier, taken from the compact-camel field and else from the underscore field, is
\* the scope; a confirmed record that names its project only in the underscore field is
\* part of the result.
C13_ScopedLocalQuery ==
    \A p \in Procs :
        (LocalDelivered(p) /\ ~Falsy(scope[p]) /\ ~Occurs(trace[p], RemoteEnds)) =>
            loads[p] = ScopedConfirmed(p)

====
